---- MODULE Spec2Model ----
(***************************************************************************)
(* WhoopClient (src/src/whoop_client.py): the bearer-token session of one  *)
(* shared client and the data calls that asyncio tasks run on it.          *)
(*                                                                         *)
(* Every action is one synchronous segment of a coroutine: the code that   *)
(* runs between two suspension points (the awaited HTTP exchanges).  The   *)
(* event loop runs one segment at a time, so a segment is atomic and the   *)
(* states of the model are exactly the points where another task can run.  *)
(*                                                                         *)
(* Python's Optional values are sequences of length at most one: <<>> is   *)
(* None and <<v>> is the value v.                                          *)
(***************************************************************************)
EXTENDS Integers, Sequences, FiniteSets, TLC

\* ------------------------------------------------------------------ bounds
MaxCalls == 2         \* data calls started by the single caller of SpecOneCaller
MaxTicks == 1         \* advances of the wall clock in one behaviour
MaxSharedCalls == 2   \* data calls started by the concurrent tasks of Spec
MaxSharedTicks == 1   \* advances of the wall clock in one behaviour of Spec
MaxDateCalls == 1     \* data calls started in one behaviour of SpecDates
MaxLiveCalls == 2     \* data calls started in one behaviour of SpecLive

\* the asyncio tasks that share the client
Tasks == {"t1", "t2"}
\* wall-clock readings: time.time() at construction and the clock's steps
StartTimes == {1000}
TickSteps == {300}
\* wall-clock readings of SpecDates, in seconds since 1970-01-01 00:00:00 of
\* the zone datetime.now() reports in: both ends of a day, a leap day, the
\* last second of a February, both sides of a new year
ClockReadings ==
    {1000, 86399, 86400, 951782400, 1705276800, 1709251199, 1735603200,
     1735689600}

\* ------------------------------------------------------- program constants
ExpiryMargin == 300          \* "5 min buffer" of _ensure_authenticated
DefaultExpiresIn == 86400    \* auth_result.get("ExpiresIn", 86400)
BASE_URL == "https://api.prod.whoop.com"

None == <<>>
Some(v) == <<v>>
IsNone(o) == o = <<>>
Val(o) == o[1]

\* ------------------------------------------------------------------ inputs
\* email / password given to the constructor: None, empty, or a value
CredentialValues == {None, Some(""), Some("secret")}
\* the date argument of the convenience methods
DateArgs == {None, Some(""), Some("2024-01-15")}

\* Bodies of data responses: one JSON text, one text that is not JSON.
JsonBodies == {"{\"ok\":true}"}
Bodies == JsonBodies \cup {"<html>"}
\* Statuses of data responses.
GetStatuses == {200, 401, 500}
\* A data response is an HTTP response, or the exchange fails in transport
\* (httpx.TimeoutException and the other httpx.RequestError subclasses).
GetResponses ==
    [kind : {"http"}, status : GetStatuses, body : Bodies]
    \cup {[kind |-> "transport", status |-> 0, body |-> ""]}

\* ExpiresIn of an AuthenticationResult: the key is absent, or its value is
\* null, a string, or a number of seconds.
ExpiresInShapes ==
    {[tag |-> "absent", n |-> 0], [tag |-> "null", n |-> 0],
     [tag |-> "str", n |-> 0], [tag |-> "int", n |-> 600]}

\* Login responses.  tok is the token the identity provider would issue for
\* this exchange; a response may leave AccessToken out.
\*   shape "nonjson"  : the body is not JSON
\*   shape "noresult" : JSON without the AuthenticationResult key
\*   shape "result"   : JSON with AuthenticationResult = {AccessToken?, ExpiresIn?}
LoginResponses(tok) ==
    {[kind |-> "http", status |-> 400, shape |-> "nonjson", text |-> "denied",
      AccessToken |-> None, ExpiresIn |-> [tag |-> "absent", n |-> 0]],
     [kind |-> "http", status |-> 200, shape |-> "nonjson", text |-> "<html>",
      AccessToken |-> None, ExpiresIn |-> [tag |-> "absent", n |-> 0]],
     [kind |-> "http", status |-> 200, shape |-> "noresult", text |-> "{}",
      AccessToken |-> None, ExpiresIn |-> [tag |-> "absent", n |-> 0]],
     [kind |-> "transport", status |-> 0, shape |-> "nonjson", text |-> "",
      AccessToken |-> None, ExpiresIn |-> [tag |-> "absent", n |-> 0]]}
    \cup [kind : {"http"}, status : {200}, shape : {"result"}, text : {"{..}"},
          AccessToken : {None, Some(tok)}, ExpiresIn : ExpiresInShapes]

VARIABLES
    email, password,        \* self.email, self.password
    access_token,           \* self.access_token
    token_expires_at,       \* self.token_expires_at
    user_id,                \* self.user_id
    now,                    \* time.time()
    pc,                     \* per task: where its coroutine is suspended
    call,                   \* per task: the data call it runs, and its record
    logins,                 \* login responses processed so far
    tokSrc, expSrc,         \* which login wrote access_token / token_expires_at
    calls, ticks,           \* counters for the bounds
    invoked                 \* per task: the convenience method it called last
                            \* and the date argument as given

vars == <<email, password, access_token, token_expires_at, user_id, now,
          pc, call, logins, tokSrc, expSrc, calls, ticks, invoked>>

session == <<access_token, token_expires_at, user_id>>


\* --------------------------------------------------------------- outcomes
\* How a call ends: a returned JSON document, or a raised exception.  An
\* exception is named by its Python class and its message; status and body
\* are what the exception carries of the HTTP response (in its message or,
\* for httpx.HTTPStatusError, in its .response).
Outcome(kind, exc, msg, status, body, value, site) ==
    [kind |-> kind, exc |-> exc, msg |-> msg, status |-> status,
     body |-> body, value |-> value, site |-> site]

Returned(doc) == Outcome("return", "", "", None, None, Some(doc), "_make_request")

\* raise ValueError("WHOOP_EMAIL and WHOOP_PASSWORD must be set")
CredentialsMissing ==
    Outcome("raise", "ValueError", "WHOOP_EMAIL and WHOOP_PASSWORD must be set",
            None, None, None, "_authenticate")
\* raise ValueError("Login failed: No authentication result received")
NoAuthenticationResult ==
    Outcome("raise", "ValueError", "Login failed: No authentication result received",
            None, None, None, "_authenticate")
\* raise ValueError(f"Failed to authenticate with WHOOP API: {e.response.text}")
LoginRejected(r) ==
    Outcome("raise", "ValueError", "Failed to authenticate with WHOOP API",
            None, Some(r.text), None, "_authenticate")
\* raise ValueError(f"API request failed: {e.response.status_code} - {e.response.text}")
ApiRequestFailed(r) ==
    Outcome("raise", "ValueError", "API request failed",
            Some(r.status), Some(r.body), None, "_make_request")
\* httpx.HTTPStatusError of response.raise_for_status(), not caught
UncaughtStatusError(r, site) ==
    Outcome("raise", "httpx.HTTPStatusError", "", Some(r.status), Some(r.body),
            None, site)
\* httpx.RequestError (timeout, connection failure) of the awaited exchange
TransportError(site) ==
    Outcome("raise", "httpx.RequestError", "", None, None, None, site)
\* json.JSONDecodeError of response.json()
DecodeError(site) ==
    Outcome("raise", "json.JSONDecodeError", "", None, None, None, site)
\* TypeError of time.time() + expires_in
ExpiresInTypeError ==
    Outcome("raise", "TypeError", "unsupported operand type(s) for +",
            None, None, None, "_authenticate")

\* ---------------------------------------------------------- pure helpers
\* Python truthiness of an Optional[str]
Truthy(o) == ~IsNone(o) /\ Val(o) # ""

\* response.is_success, the test of raise_for_status()
IsSuccess(status) == status >= 200 /\ status <= 299

\* response.json() of a data response
ParseJson(text) == IF text = "{\"ok\":true}" THEN [ok |-> TRUE] ELSE [ok |-> FALSE]
ResponseJson(r) ==
    IF r.body \in JsonBodies THEN Returned(ParseJson(r.body))
                             ELSE DecodeError("_make_request")

\* The decimal digits, and a number in two and in four of them (%m, %d, %Y).
DigitChars == <<"0", "1", "2", "3", "4", "5", "6", "7", "8", "9">>
Pad2(n) == DigitChars[((n \div 10) % 10) + 1] \o DigitChars[(n % 10) + 1]
Pad4(n) == Pad2(n \div 100) \o Pad2(n % 100)

\* datetime.now().strftime("%Y-%m-%d") at the clock reading t: the proleptic
\* Gregorian date of day t \div 86400, counted in 400-year eras of 146097
\* days that begin on a 1 March.
Strftime(t) ==
    LET z == t \div 86400 + 719468
        era == z \div 146097
        doe == z - era * 146097
        yoe == (doe - doe \div 1460 + doe \div 36524 - doe \div 146096) \div 365
        doy == doe - (365 * yoe + yoe \div 4 - yoe \div 100)
        mp == (5 * doy + 2) \div 153
        d == doy - (153 * mp + 2) \div 5 + 1
        m == IF mp < 10 THEN mp + 3 ELSE mp - 9
        y == yoe + era * 400 + (IF m <= 2 THEN 1 ELSE 0)
    IN  Pad4(y) \o "-" \o Pad2(m) \o "-" \o Pad2(d)

\* Variant that substitutes the current date for None alone:
\* date if date is not None else datetime.now().strftime("%Y-%m-%d").
DateParam_NoneOnly(date, t) == IF ~IsNone(date) THEN Val(date) ELSE Strftime(t)

\* date or datetime.now().strftime("%Y-%m-%d")
DateParam(date, t) == IF Truthy(date) THEN Val(date) ELSE Strftime(t)

\* Variant that tests the email alone: `if not self.email`.
CredentialsUnset_EmailOnly(e, p) == ~Truthy(e)

\* not self.email or not self.password
CredentialsUnset(e, p) == ~Truthy(e) \/ ~Truthy(p)

\* Variant without the 5 minute buffer: time.time() >= self.token_expires_at.
NeedsAuthentication_NoMargin(tok, exp, t) ==
    \/ IsNone(tok)
    \/ (~IsNone(exp) /\ Val(exp) # 0 /\ t >= Val(exp))

\* Variant with `or` for `and` in the second operand:
\* self.token_expires_at or time.time() >= self.token_expires_at - 300.
NeedsAuthentication_OrSlip(tok, exp, t) ==
    \/ IsNone(tok)
    \/ (~IsNone(exp) /\ Val(exp) # 0)
    \/ (~IsNone(exp) /\ t >= Val(exp) - ExpiryMargin)

\* not self.access_token or (self.token_expires_at and
\*                           time.time() >= self.token_expires_at - 300)
NeedsAuthentication(tok, exp, t) ==
    \/ IsNone(tok)
    \/ (~IsNone(exp) /\ Val(exp) # 0 /\ t >= Val(exp) - ExpiryMargin)

\* Variant that never reads the response's value.
ExpiresInOrDefault_Ignore(e) == DefaultExpiresIn

\* auth_result.get("ExpiresIn", 86400), for a key that is absent or numeric
ExpiresInOrDefault(e) == IF e.tag = "absent" THEN DefaultExpiresIn ELSE e.n

\* The body of the try block of _authenticate once the POST has completed:
\* the values the two session fields end with, which of them were assigned,
\* and the exception raised, if any.
ProcessLogin(r, tok, exp, t) ==
    LET keep(err) == [access_token |-> tok, token_expires_at |-> exp,
                      wroteToken |-> FALSE, wroteExpiry |-> FALSE,
                      err |-> Some(err)]
    IN  IF r.kind = "transport" THEN keep(TransportError("_authenticate"))
        ELSE IF ~IsSuccess(r.status) THEN keep(LoginRejected(r))
        ELSE IF r.shape = "nonjson" THEN keep(DecodeError("_authenticate"))
        ELSE IF r.shape = "noresult"
                \/ (IsNone(r.AccessToken) /\ r.ExpiresIn.tag = "absent")
             THEN keep(NoAuthenticationResult)
        ELSE IF r.ExpiresIn.tag \in {"null", "str"}
             THEN [access_token |-> r.AccessToken, token_expires_at |-> exp,
                   wroteToken |-> TRUE, wroteExpiry |-> FALSE,
                   err |-> Some(ExpiresInTypeError)]
        ELSE [access_token |-> r.AccessToken,
              token_expires_at |->
                  Some(t + ExpiresInOrDefault(r.ExpiresIn)),
              wroteToken |-> TRUE, wroteExpiry |-> TRUE, err |-> None]

\* _get_user_id (lines 76-90).  No statement of the repository calls it:
\* _authenticate returns after line 71 without it, so no transition below
\* uses these two operators.
\*   the profile GET it sends, None when it returns at line 79
GetUserIdRequest(tok) ==
    IF IsNone(tok) THEN None
    ELSE Some([url |-> <<BASE_URL, "/user/profile/basic">>, Authorization |-> tok])
\*   self.user_id after the response r, whose body carries the id `found`
\*   (lines 86-90: any exception is logged and swallowed)
GetUserIdResult(r, found, uid) ==
    IF r.kind = "http" /\ IsSuccess(r.status) /\ r.body \in JsonBodies
    THEN found ELSE uid

\* headers / url / params of client.get(url, headers=headers, params=params)
GetRequest(endpoint, params, tok) ==
    [url |-> <<BASE_URL, endpoint>>, params |-> params, Authorization |-> tok]

\* ----------------------------------------------------------- call records
NoCall ==
    [endpoint |-> "", params |-> [date |-> ""],
     check |-> None,        \* session and clock read by _ensure_authenticated
     authCalls |-> 0,       \* _authenticate() calls made by this call
     forced |-> 0,          \* of these, the calls made by the 401 handler
     posts |-> 0,           \* login POSTs issued by this call
     sent |-> 0,            \* logins the client had processed at the last POST
     gets |-> 0,            \* data GETs issued by this call
     profileGets |-> 0,     \* GETs of /user/profile/basic issued by this call
     writes |-> 0,          \* assignments to session fields by this call
     login1 |-> None,       \* login processed for the ensure-check
     login2 |-> None,       \* login processed for the 401 refresh
     ensured |-> None,      \* token and expiry when the first GET is sent
     get1 |-> None, get2 |-> None,       \* the GETs as sent
     resp1 |-> None, resp2 |-> None,     \* their responses
     outcome |-> None]

Init ==
    /\ email \in CredentialValues
    /\ password \in CredentialValues
    /\ access_token = None
    /\ token_expires_at = None
    /\ user_id = None
    /\ now \in StartTimes
    /\ pc = [t \in Tasks |-> "idle"]
    /\ call = [t \in Tasks |-> NoCall]
    /\ logins = 0
    /\ tokSrc = 0
    /\ expSrc = 0
    /\ calls = 0
    /\ ticks = 0
    /\ invoked = [t \in Tasks |-> [method |-> "", date |-> None]]


\* ------------------------------------------------------------- transitions
\* Entry of _authenticate up to its first suspension (lines 33-57): the
\* credential check, then the login POST is sent and the coroutine suspends
\* at `await self.client.post(...)` (program counter `waiting`).
BeginAuthenticate(c, waiting) ==
    IF CredentialsUnset(email, password)
    THEN [pc |-> "done",
          call |-> [c EXCEPT !.authCalls = @ + 1,
                             !.outcome = Some(CredentialsMissing)]]
    ELSE [pc |-> waiting,
          call |-> [c EXCEPT !.authCalls = @ + 1, !.posts = @ + 1,
                             !.sent = logins]]

\* _make_request(endpoint, params) up to its first suspension (lines 109-128):
\* the ensure-check, and when it is a no-op the first GET is sent with the
\* session's token.
MakeRequest(t, endpoint, params) ==
    /\ pc[t] \in {"idle", "done"}
    /\ calls' = calls + 1
    /\ LET c == [NoCall EXCEPT !.endpoint = endpoint, !.params = params,
                               !.check = Some([token |-> access_token,
                                               expires |-> token_expires_at,
                                               now |-> now])]
           r == IF NeedsAuthentication(access_token, token_expires_at, now)
                THEN BeginAuthenticate(c, "ensure_post")
                ELSE [pc |-> "get1",
                      call |-> [c EXCEPT !.gets = @ + 1,
                                         !.ensured = Some([token |-> access_token,
                                                           expires |-> token_expires_at]),
                                         !.get1 = Some(GetRequest(endpoint, params,
                                                                  access_token))]]
       IN  /\ pc' = [pc EXCEPT ![t] = r.pc]
           /\ call' = [call EXCEPT ![t] = r.call]
    /\ UNCHANGED <<email, password, access_token, token_expires_at, user_id,
                   now, logins, tokSrc, expSrc, ticks>>

get_overview(t, date) ==
    /\ MakeRequest(t, "/home-service/v1/home", [date |-> DateParam(date, now)])
    /\ invoked' = [invoked EXCEPT ![t] = [method |-> "get_overview", date |-> date]]

get_sleep(t, date) ==
    /\ MakeRequest(t, "/home-service/v1/deep-dive/sleep", [date |-> DateParam(date, now)])
    /\ invoked' = [invoked EXCEPT ![t] = [method |-> "get_sleep", date |-> date]]

get_recovery(t, date) ==
    /\ MakeRequest(t, "/home-service/v1/deep-dive/recovery", [date |-> DateParam(date, now)])
    /\ invoked' = [invoked EXCEPT ![t] = [method |-> "get_recovery", date |-> date]]

get_strain(t, date) ==
    /\ MakeRequest(t, "/home-service/v1/deep-dive/strain", [date |-> DateParam(date, now)])
    /\ invoked' = [invoked EXCEPT ![t] = [method |-> "get_strain", date |-> date]]

get_healthspan(t, date) ==
    /\ MakeRequest(t, "/healthspan-service/v1/healthspan/bff", [date |-> DateParam(date, now)])
    /\ invoked' = [invoked EXCEPT ![t] = [method |-> "get_healthspan", date |-> date]]

\* Variant that stores a login's result only into an empty session.
ApplyLogin_KeepPresent(r, res) ==
    /\ logins' = logins + 1
    /\ access_token' = IF IsNone(access_token) THEN res.access_token
                                              ELSE access_token
    /\ token_expires_at' = IF IsNone(access_token) THEN res.token_expires_at
                                                  ELSE token_expires_at
    /\ tokSrc' = IF res.wroteToken /\ IsNone(access_token) THEN logins + 1 ELSE tokSrc
    /\ expSrc' = IF res.wroteExpiry /\ IsNone(access_token) THEN logins + 1 ELSE expSrc

\* The session update of one processed login response r, common to both
\* callers of _authenticate.
ApplyLogin(r, res) ==
    /\ logins' = logins + 1
    /\ access_token' = res.access_token
    /\ token_expires_at' = res.token_expires_at
    /\ tokSrc' = IF res.wroteToken THEN logins + 1 ELSE tokSrc
    /\ expSrc' = IF res.wroteExpiry THEN logins + 1 ELSE expSrc

\* What a call c keeps of one _authenticate(): the response, its position
\* among the logins processed, the clock, whether it returned normally, how
\* many logins had been processed when its POST went out, and whether
\* access_token or token_expires_at differs after it from what it was before.
LoginRecord(c, r, res) ==
    Some([resp |-> r, id |-> logins + 1, at |-> now, ok |-> IsNone(res.err),
          sent |-> c.sent,
          changed |-> <<res.access_token, res.token_expires_at>>
                          # <<access_token, token_expires_at>>])

SessionWrites(res) ==
    (IF res.wroteToken THEN 1 ELSE 0) + (IF res.wroteExpiry THEN 1 ELSE 0)

\* The login POST of the ensure-check completes (lines 57-74, then 96 and
\* 109-128): on success the first GET is sent with the token just stored.
EnsureLoginResponse(t, r) ==
    /\ pc[t] = "ensure_post"
    /\ r \in LoginResponses(logins + 1)
    /\   LET res == ProcessLogin(r, access_token, token_expires_at, now)
             c == [call[t] EXCEPT !.login1 = LoginRecord(call[t], r, res),
                                  !.writes = @ + SessionWrites(res)]
         IN  /\ ApplyLogin(r, res)
             /\ IF IsNone(res.err)
                THEN /\ pc' = [pc EXCEPT ![t] = "get1"]
                     /\ call' = [call EXCEPT ![t] =
                            [c EXCEPT !.gets = @ + 1,
                                      !.ensured = Some([token |-> res.access_token,
                                                        expires |-> res.token_expires_at]),
                                      !.get1 = Some(GetRequest(c.endpoint, c.params,
                                                               res.access_token))]]
                ELSE /\ pc' = [pc EXCEPT ![t] = "done"]
                     /\ call' = [call EXCEPT ![t] = [c EXCEPT !.outcome = res.err]]
    /\ UNCHANGED <<email, password, user_id, now, calls, ticks, invoked>>

\* Variant whose handler re-authenticates on every HTTPStatusError.
AfterFirstGet_RetryAnyError(c, r) ==
    IF r.kind = "transport"
    THEN [pc |-> "done",
          call |-> [c EXCEPT !.outcome = Some(TransportError("_make_request"))]]
    ELSE IF IsSuccess(r.status)
    THEN [pc |-> "done", call |-> [c EXCEPT !.outcome = Some(ResponseJson(r))]]
    ELSE BeginAuthenticate([c EXCEPT !.forced = @ + 1], "retry_post")

\* What the call does with the response r of the first GET (lines 128-135
\* and 140), up to the login POST of the 401 handler.
AfterFirstGet(c, r) ==
    IF r.kind = "transport"
    THEN [pc |-> "done",
          call |-> [c EXCEPT !.outcome = Some(TransportError("_make_request"))]]
    ELSE IF IsSuccess(r.status)
    THEN [pc |-> "done", call |-> [c EXCEPT !.outcome = Some(ResponseJson(r))]]
    ELSE IF r.status = 401
    THEN BeginAuthenticate([c EXCEPT !.forced = @ + 1], "retry_post")
    ELSE [pc |-> "done", call |-> [c EXCEPT !.outcome = Some(ApiRequestFailed(r))]]

\* The first GET completes.
FirstGetResponse(t, r) ==
    /\ pc[t] = "get1"
    /\ r \in GetResponses
    /\   LET n == AfterFirstGet([call[t] EXCEPT !.resp1 = Some(r)], r)
         IN  /\ pc' = [pc EXCEPT ![t] = n.pc]
             /\ call' = [call EXCEPT ![t] = n.call]
    /\ UNCHANGED <<email, password, access_token, token_expires_at, user_id,
                   now, logins, tokSrc, expSrc, calls, ticks, invoked>>

\* Variant that leaves the header of the first GET in place.
RebuiltAuthorization_Stale(c, tok) == Val(c.get1).Authorization

\* headers["Authorization"] = f"Bearer {self.access_token}" of the 401 handler:
\* the token the retried GET carries, given the call record and the session's
\* token after the re-authentication.
RebuiltAuthorization(c, tok) == tok

\* Variant whose handler goes on to the retried GET whatever the
\* re-authentication ended with.
AfterRetryLogin_Swallow(c, res) ==
    [pc |-> "get2",
     call |-> [c EXCEPT !.gets = @ + 1,
                        !.get2 = Some(GetRequest(c.endpoint, c.params,
                                    RebuiltAuthorization(c, res.access_token)))]]

\* What the 401 handler does once its _authenticate() is over (lines 135-137),
\* res being the result of ProcessLogin: an exception of _authenticate()
\* leaves the handler and ends the call; otherwise the Authorization header is
\* rebuilt and the GET is sent again.
AfterRetryLogin(c, res) ==
    IF IsNone(res.err)
    THEN [pc |-> "get2",
          call |-> [c EXCEPT !.gets = @ + 1,
                             !.get2 = Some(GetRequest(c.endpoint, c.params,
                                         RebuiltAuthorization(c, res.access_token)))]]
    ELSE [pc |-> "done", call |-> [c EXCEPT !.outcome = res.err]]

\* The login POST of the 401 refresh completes (lines 57-74, then 136-137).
RetryLoginResponse(t, r) ==
    /\ pc[t] = "retry_post"
    /\ r \in LoginResponses(logins + 1)
    /\   LET res == ProcessLogin(r, access_token, token_expires_at, now)
             c == [call[t] EXCEPT !.login2 = LoginRecord(call[t], r, res),
                                  !.writes = @ + SessionWrites(res)]
             n == AfterRetryLogin(c, res)
         IN  /\ ApplyLogin(r, res)
             /\ pc' = [pc EXCEPT ![t] = n.pc]
             /\ call' = [call EXCEPT ![t] = n.call]
    /\ UNCHANGED <<email, password, user_id, now, calls, ticks, invoked>>

\* Variant that handles the retried GET as the first one is handled: another
\* 401 re-authenticates again, any other failure is wrapped.
AfterSecondGet_RetryAgain(c, r) ==
    IF r.kind = "http" /\ r.status = 401
    THEN BeginAuthenticate([c EXCEPT !.forced = @ + 1], "retry_post")
    ELSE [pc |-> "done", call |-> [c EXCEPT !.outcome = Some(ApiRequestFailed(r))]]

\* Variant that sends the GET again for as long as it is answered with a
\* non-2xx status (the GETs after the second are not counted in the record).
AfterSecondGet_LoopOnError(c, r) ==
    IF r.kind = "http" /\ ~IsSuccess(r.status)
    THEN [pc |-> "get2", call |-> c]
    ELSE [pc |-> "done",
          call |-> [c EXCEPT !.outcome =
                      Some(IF r.kind = "transport" THEN TransportError("_make_request")
                           ELSE ResponseJson(r))]]

\* What the call does with the response r of the retried GET (lines 137-139):
\* the statements run inside the except handler, where no handler catches
\* the HTTPStatusError of the second raise_for_status().
AfterSecondGet(c, r) ==
    [pc |-> "done",
     call |-> [c EXCEPT !.outcome =
                 Some(IF r.kind = "transport" THEN TransportError("_make_request")
                      ELSE IF IsSuccess(r.status) THEN ResponseJson(r)
                      ELSE UncaughtStatusError(r, "_make_request"))]]

\* The retried GET completes.
SecondGetResponse(t, r) ==
    /\ pc[t] = "get2"
    /\ r \in GetResponses
    /\   LET n == AfterSecondGet([call[t] EXCEPT !.resp2 = Some(r)], r)
         IN  /\ pc' = [pc EXCEPT ![t] = n.pc]
             /\ call' = [call EXCEPT ![t] = n.call]
    /\ UNCHANGED <<email, password, access_token, token_expires_at, user_id,
                   now, logins, tokSrc, expSrc, calls, ticks, invoked>>

\* The wall clock advances.
Tick(d) ==
    /\ d \in TickSteps
    /\ now' = now + d
    /\ ticks' = ticks + 1
    /\ UNCHANGED <<email, password, access_token, token_expires_at, user_id,
                   pc, call, logins, tokSrc, expSrc, calls, invoked>>

\* -------------------------------------------------------------- tool layer
\* src/src/tools/whoop.py and src/src/server.py.  A handler awaits one client
\* method and turns its outcome o, a returned document or a raised exception,
\* into a result dictionary; the operators below are the handlers from the
\* point where the awaited client call is over.
\* The exception classes the client can raise that derive from Exception.
ExceptionClasses ==
    {"ValueError", "TypeError", "httpx.HTTPStatusError", "httpx.RequestError",
     "json.JSONDecodeError"}

\* A status code in decimal, as an f-string prints it.
Decimal3(n) == DigitChars[((n \div 100) % 10) + 1] \o Pad2(n % 100)

\* str(e) of a raised exception: the ValueError messages of the client with
\* the response's details filled in, the library's own text otherwise.
StrOfException(o) ==
    IF o.exc = "ValueError" /\ o.msg = "API request failed"
    THEN o.msg \o ": " \o Decimal3(Val(o.status)) \o " - " \o Val(o.body)
    ELSE IF o.exc = "ValueError" /\ o.msg = "Failed to authenticate with WHOOP API"
    THEN o.msg \o ": " \o Val(o.body)
    ELSE o.msg

\* json.dumps(data, indent=2, ensure_ascii=False) of a parsed document
JsonDumps(doc) == IF doc.ok THEN "{\n  \"ok\": true\n}" ELSE "{\n  \"ok\": false\n}"

\* format_*_response(data): the title line (its leading glyph left out), a
\* rule, an empty line and the document, joined by newlines.
FormatResponse(title, doc) ==
    title \o "\n" \o "===================" \o "\n" \o "" \o "\n" \o JsonDumps(doc)

\* How a handler or a server tool ends.
ToolReturn(v) == [kind |-> "return", value |-> Some(v), exc |-> ""]
ToolRaise(o) == [kind |-> "raise", value |-> None, exc |-> o.exc]

\* The result dictionary with one text block; isError is None when the key
\* is absent.
TextResult(text, isError) ==
    [content |-> <<[type |-> "text", text |-> text]>>, isError |-> isError]

\* Variant whose handler is `except ValueError as e`.
HandleTool_ValueErrorOnly(metric, title, o) ==
    IF o.kind = "return"
    THEN ToolReturn(TextResult(FormatResponse(title, Val(o.value)), None))
    ELSE IF o.exc = "ValueError"
    THEN ToolReturn(TextResult("Error fetching Whoop " \o metric \o " data: "
                                   \o StrOfException(o), Some(TRUE)))
    ELSE ToolRaise(o)

\* The body common to the five handlers (lines 18-43 of tools/whoop.py for
\* handle_overview): try / except Exception around the awaited call.
HandleTool(metric, title, o) ==
    IF o.kind = "return"
    THEN ToolReturn(TextResult(FormatResponse(title, Val(o.value)), None))
    ELSE IF o.exc \in ExceptionClasses
    THEN ToolReturn(TextResult("Error fetching Whoop " \o metric \o " data: "
                                   \o StrOfException(o), Some(TRUE)))
    ELSE ToolRaise(o)

handle_overview(o) == HandleTool("overview", "WHOOP OVERVIEW", o)
handle_sleep(o) == HandleTool("sleep", "SLEEP ANALYSIS", o)
handle_recovery(o) == HandleTool("recovery", "RECOVERY ANALYSIS", o)
handle_strain(o) == HandleTool("strain", "STRAIN ANALYSIS", o)
handle_healthspan(o) == HandleTool("healthspan", "HEALTHSPAN ANALYSIS", o)

\* The body common to the five server tools, h being what the awaited handler
\* ended with (lines 49-52 of server.py for whoop_get_overview).
ServerTool(h) ==
    IF h.kind = "raise" THEN h
    ELSE IF Val(h.value).content # <<>>
    THEN ToolReturn(Val(h.value).content[1].text)
    ELSE ToolReturn("No data available")

whoop_get_overview(o) == ServerTool(handle_overview(o))
whoop_get_sleep(o) == ServerTool(handle_sleep(o))
whoop_get_recovery(o) == ServerTool(handle_recovery(o))
whoop_get_strain(o) == ServerTool(handle_strain(o))
whoop_get_healthspan(o) == ServerTool(handle_healthspan(o))

\* ---------------------------------------------------------- specifications
\* Spec: the tasks of Tasks call the shared client concurrently, t1 asking
\* for sleep data of the current date and t2 for strain data of a given date.
\* Each task runs one data call at a time; the responses come from the
\* subsets SharedLoginResponses and SharedGetResponses.
SharedLoginResponses(tok) ==
    {r \in LoginResponses(tok) :
        \/ r.kind = "http" /\ r.status = 400
        \/ r.shape = "result" /\ r.AccessToken = Some(tok)
                              /\ r.ExpiresIn.tag \in {"int", "null"}}

SharedGetResponses ==
    {r \in GetResponses :
        \/ r.status = 200 /\ r.body \in JsonBodies
        \/ r.status \in {401, 500} /\ r.body \notin JsonBodies}

Next ==
    \/ calls < MaxSharedCalls /\ get_sleep("t1", None)
    \/ calls < MaxSharedCalls /\ get_strain("t2", Some("2024-01-15"))
    \/ \E t \in Tasks : \E r \in SharedLoginResponses(logins + 1) :
          EnsureLoginResponse(t, r)
    \/ \E t \in Tasks : \E r \in SharedGetResponses : FirstGetResponse(t, r)
    \/ \E t \in Tasks : \E r \in SharedLoginResponses(logins + 1) :
          RetryLoginResponse(t, r)
    \/ \E t \in Tasks : \E r \in SharedGetResponses : SecondGetResponse(t, r)
    \/ \E d \in TickSteps : ticks < MaxSharedTicks /\ Tick(d)

Spec == Init /\ [][Next]_vars

\* SpecOneCaller: a single task makes data calls one after the other, with
\* every convenience method, every date argument and every response shape.
Caller == "t1"

NextOneCaller ==
    \/ \E date \in DateArgs : calls < MaxCalls /\ get_overview(Caller, date)
    \/ \E date \in DateArgs : calls < MaxCalls /\ get_sleep(Caller, date)
    \/ \E date \in DateArgs : calls < MaxCalls /\ get_recovery(Caller, date)
    \/ \E date \in DateArgs : calls < MaxCalls /\ get_strain(Caller, date)
    \/ \E date \in DateArgs : calls < MaxCalls /\ get_healthspan(Caller, date)
    \/ \E r \in LoginResponses(logins + 1) : EnsureLoginResponse(Caller, r)
    \/ \E r \in GetResponses : FirstGetResponse(Caller, r)
    \/ \E r \in LoginResponses(logins + 1) : RetryLoginResponse(Caller, r)
    \/ \E r \in GetResponses : SecondGetResponse(Caller, r)
    \/ \E d \in TickSteps : ticks < MaxTicks /\ Tick(d)

SpecOneCaller == Init /\ [][NextOneCaller]_vars

\* SpecDates: a single task calls the convenience methods with every date
\* argument, on clients constructed at the clock readings of ClockReadings.
InitDates ==
    /\ email \in CredentialValues
    /\ password \in CredentialValues
    /\ access_token = None
    /\ token_expires_at = None
    /\ user_id = None
    /\ now \in ClockReadings
    /\ pc = [t \in Tasks |-> "idle"]
    /\ call = [t \in Tasks |-> NoCall]
    /\ logins = 0
    /\ tokSrc = 0
    /\ expSrc = 0
    /\ calls = 0
    /\ ticks = 0
    /\ invoked = [t \in Tasks |-> [method |-> "", date |-> None]]

NextDates ==
    \/ \E date \in DateArgs : calls < MaxDateCalls /\ get_overview(Caller, date)
    \/ \E date \in DateArgs : calls < MaxDateCalls /\ get_sleep(Caller, date)
    \/ \E date \in DateArgs : calls < MaxDateCalls /\ get_recovery(Caller, date)
    \/ \E date \in DateArgs : calls < MaxDateCalls /\ get_strain(Caller, date)
    \/ \E date \in DateArgs : calls < MaxDateCalls /\ get_healthspan(Caller, date)
    \/ \E r \in SharedLoginResponses(logins + 1) : EnsureLoginResponse(Caller, r)
    \/ \E r \in SharedGetResponses : FirstGetResponse(Caller, r)
    \/ \E r \in SharedLoginResponses(logins + 1) : RetryLoginResponse(Caller, r)
    \/ \E r \in SharedGetResponses : SecondGetResponse(Caller, r)

SpecDates == InitDates /\ [][NextDates]_vars

\* SpecLive: the tasks of Tasks call the shared client concurrently, and every
\* HTTP exchange a task awaits completes: the event loop resumes a coroutine
\* whose awaited exchange has a response or a transport failure, so the
\* completion of each task's pending exchange is weakly fair.
ExchangeCompletes(t) ==
    \/ \E r \in SharedLoginResponses(logins + 1) : EnsureLoginResponse(t, r)
    \/ \E r \in SharedGetResponses
             \cup {[kind |-> "transport", status |-> 0, body |-> ""]} :
          FirstGetResponse(t, r)
    \/ \E r \in SharedLoginResponses(logins + 1) : RetryLoginResponse(t, r)
    \/ \E r \in SharedGetResponses
             \cup {[kind |-> "transport", status |-> 0, body |-> ""]} :
          SecondGetResponse(t, r)

NextLive ==
    \/ \E t \in Tasks : calls < MaxLiveCalls /\ get_overview(t, None)
    \/ \E t \in Tasks : \E r \in SharedLoginResponses(logins + 1) :
          EnsureLoginResponse(t, r)
    \/ \E t \in Tasks : \E r \in SharedGetResponses
             \cup {[kind |-> "transport", status |-> 0, body |-> ""]} :
          FirstGetResponse(t, r)
    \/ \E t \in Tasks : \E r \in SharedLoginResponses(logins + 1) :
          RetryLoginResponse(t, r)
    \/ \E t \in Tasks : \E r \in SharedGetResponses
             \cup {[kind |-> "transport", status |-> 0, body |-> ""]} :
          SecondGetResponse(t, r)

SpecLive ==
    Init /\ [][NextLive]_vars /\ \A t \in Tasks : WF_vars(ExchangeCompletes(t))


\* ------------------------------------------------------------------ claims
\* The error kinds of the design, as the code raises them: each is a
\* ValueError told apart by its message.
CredentialError(o) ==
    o.kind = "raise" /\ o.exc = "ValueError"
    /\ o.msg = "WHOOP_EMAIL and WHOOP_PASSWORD must be set"

AuthenticationError(o) ==
    o.kind = "raise" /\ o.exc = "ValueError"
    /\ o.msg \in {"Failed to authenticate with WHOOP API",
                  "Login failed: No authentication result received"}

ApiRequestError(o) ==
    o.kind = "raise" /\ o.exc = "ValueError" /\ o.msg = "API request failed"

\* What a finished call of task t ended with.
Done(t) == pc[t] = "done"
Result(t) == Val(call[t].outcome)

\* The session as read by the ensure-check of t's call.
Checked(t) == Val(call[t].check)
TokenPresentAtCheck(t) == ~IsNone(call[t].check) /\ ~IsNone(Checked(t).token)
ExpirySetAtCheck(t) == ~IsNone(call[t].check) /\ ~IsNone(Checked(t).expires)
NearExpiryAtCheck(t) ==
    /\ TokenPresentAtCheck(t) /\ ExpirySetAtCheck(t)
    /\ Checked(t).now >= Val(Checked(t).expires) - 300
ValidAtCheck(t) ==
    /\ TokenPresentAtCheck(t) /\ ExpirySetAtCheck(t)
    /\ Checked(t).now < Val(Checked(t).expires) - 300

\* t's call saw 401 on its first GET and an HTTP response on the retried GET.
Got401(t) ==
    ~IsNone(call[t].resp1) /\ Val(call[t].resp1).kind = "http"
    /\ Val(call[t].resp1).status = 401
Retried(t) == ~IsNone(call[t].resp2) /\ Val(call[t].resp2).kind = "http"
RetryStatus(t) == Val(call[t].resp2).status
RetryIs2xx(t) == Retried(t) /\ RetryStatus(t) \in 200..299

\* What C1 promises of a call whose retry was answered 2xx.
RetrySucceeded(t) ==
    /\ Result(t).kind = "return"
    /\ Result(t).value = Some(ParseJson(Val(call[t].resp2).body))
    /\ call[t].authCalls = 1
    /\ Val(call[t].get2).url = <<BASE_URL, call[t].endpoint>>
    /\ Val(call[t].get2).url = Val(call[t].get1).url
    /\ Val(call[t].get2).params = call[t].params
    /\ Val(call[t].get2).params = Val(call[t].get1).params
    /\ ~IsNone(call[t].login2) /\ Val(call[t].login2).ok
    /\ Val(call[t].get2).Authorization = Val(call[t].login2).resp.AccessToken

\* C1 as stated: a call that starts with a session passing the ensure-check
\* (a token with now < expiresAt - 300), gets 401 on the first GET and 2xx on
\* the retried GET returns the retried response's body, after
\* exactly one _authenticate(), the retried GET being the same request with
\* the token of that re-authentication.
C1_AsStated ==
    \A t \in Tasks :
        (Done(t) /\ ValidAtCheck(t) /\ Got401(t) /\ RetryIs2xx(t))
            => RetrySucceeded(t)

\* C1, amended: the same, for a retried GET answered 2xx with a body that is
\* valid JSON (response.json() raises on any other body and the call fails).
C1_RetryOn401 ==
    \A t \in Tasks :
        (Done(t) /\ ValidAtCheck(t) /\ Got401(t) /\ RetryIs2xx(t)
            /\ Val(call[t].resp2).body \in JsonBodies)
            => RetrySucceeded(t)

\* A call with a valid session that got 401, then 2xx with JSON, and returned.
C1_Witness ==
    \E t \in Tasks :
        /\ Done(t) /\ ValidAtCheck(t) /\ Got401(t) /\ RetryIs2xx(t)
        /\ Val(call[t].resp2).body \in JsonBodies
        /\ Result(t).kind = "return"
        /\ Val(call[t].get2).Authorization # Val(call[t].get1).Authorization

\* C2: when the first GET returns 401 and the retried GET returns a non-2xx
\* status, the call fails with ApiRequestError carrying that status and
\* body, and no third GET is issued.
C2_RetryFailureKind ==
    \A t \in Tasks :
        (Done(t) /\ Got401(t) /\ Retried(t) /\ ~RetryIs2xx(t))
            => /\ ApiRequestError(Result(t))
               /\ Result(t).status = Some(RetryStatus(t))
               /\ Result(t).body = Some(Val(call[t].resp2).body)
               /\ call[t].gets = 2

\* C3: one data call issues at most two GETs, makes at most one forced
\* re-authentication and at most two _authenticate() calls in all, and a 401
\* on the retried GET ends the call in failure.
C3_BoundedAttempts ==
    \A t \in Tasks :
        /\ call[t].gets <= 2
        /\ call[t].forced <= 1
        /\ call[t].authCalls <= 2
        /\ call[t].posts <= call[t].authCalls
        /\ (Retried(t) /\ RetryStatus(t) = 401)
              => (Done(t) /\ Result(t).kind = "raise")

\* A call that logged in for the ensure-check, again for a 401, and got 401
\* on the retried GET.
C3_Witness ==
    \E t \in Tasks :
        /\ Done(t) /\ Got401(t) /\ Retried(t) /\ RetryStatus(t) = 401
        /\ call[t].gets = 2 /\ call[t].authCalls = 2 /\ call[t].forced = 1

\* C4: a call whose ensure-check reads a present token with an expiry and
\* now >= expiresAt - 300 makes exactly one _authenticate() call before its
\* first GET, and that GET carries the token which that login stored.
C4_ExpiryMargin ==
    \A t \in Tasks :
        NearExpiryAtCheck(t)
            => /\ call[t].authCalls >= 1
               /\ ~IsNone(call[t].get1)
                    => /\ ~IsNone(call[t].login1) /\ Val(call[t].login1).ok
                       /\ Val(call[t].get1).Authorization
                             = Val(call[t].login1).resp.AccessToken
               /\ pc[t] = "get1"
                    => (call[t].authCalls = 1 /\ call[t].posts = 1)

\* A call checked exactly at now = expiresAt - 300, its first GET in flight
\* with a token other than the one it found.
C4_Witness ==
    \E t \in Tasks :
        /\ NearExpiryAtCheck(t) /\ pc[t] = "get1"
        /\ Checked(t).now = Val(Checked(t).expires) - 300
        /\ Val(call[t].get1).Authorization # Checked(t).token

\* C5: a call whose ensure-check reads a present token with
\* now < expiresAt - 300 sends its GET with that token, and when the GET is
\* not answered with 401 it makes no _authenticate() call and leaves the
\* session as it was.
C5_NoPrematureRefresh ==
    \A t \in Tasks :
        ValidAtCheck(t)
            => /\ ~IsNone(call[t].get1)
               /\ Val(call[t].get1).Authorization = Checked(t).token
               /\ ~Got401(t)
                    => /\ call[t].authCalls = 0 /\ call[t].posts = 0
                       /\ call[t].writes = 0
                       /\ access_token = Checked(t).token
                       /\ token_expires_at = Checked(t).expires

\* A call with a valid session that returned with no login.
C5_Witness ==
    \E t \in Tasks :
        /\ ValidAtCheck(t) /\ Done(t) /\ ~Got401(t)
        /\ Result(t).kind = "return" /\ call[t].authCalls = 0


\* C6: whenever access_token is present, token_expires_at is present.
C6_TokenHasExpiry ==
    ~IsNone(access_token) => ~IsNone(token_expires_at)

\* C7: at every point where another task can run, access_token and
\* token_expires_at come from the same login response.
C7_SessionAtomic ==
    tokSrc = expSrc

\* C8: every data GET carries a token that is present and that either was
\* stored by a successful login of the same call or satisfied
\* now < expiresAt - 300 at the call's ensure-check.
C8_TokenUsedByRequests ==
    \A t \in Tasks :
        /\ ~IsNone(call[t].get1)
              => /\ ~IsNone(Val(call[t].get1).Authorization)
                 /\ \/ /\ ~IsNone(call[t].login1) /\ Val(call[t].login1).ok
                       /\ Val(call[t].get1).Authorization
                             = Val(call[t].login1).resp.AccessToken
                    \/ /\ IsNone(call[t].login1) /\ ValidAtCheck(t)
                       /\ Val(call[t].get1).Authorization = Checked(t).token
        /\ ~IsNone(call[t].get2)
              => /\ ~IsNone(Val(call[t].get2).Authorization)
                 /\ ~IsNone(call[t].login2) /\ Val(call[t].login2).ok
                 /\ Val(call[t].get2).Authorization
                       = Val(call[t].login2).resp.AccessToken

\* C9: with the email or the password absent or empty, every _authenticate()
\* fails with CredentialError, no request goes out, and access_token and
\* token_expires_at stay as they were.
CredentialsAbsent ==
    email \in {None, Some("")} \/ password \in {None, Some("")}

C9_CredentialGate ==
    CredentialsAbsent
        => /\ logins = 0
           /\ \A t \in Tasks :
                /\ call[t].posts = 0 /\ call[t].gets = 0 /\ call[t].writes = 0
                /\ call[t].authCalls > 0
                     => /\ Done(t) /\ CredentialError(Result(t))
                        /\ call[t].authCalls = 1
                        /\ access_token = Checked(t).token
                        /\ token_expires_at = Checked(t).expires

\* The empty-password client after a data call.
C9_Witness ==
    /\ email = Some("secret") /\ password = Some("")
    /\ \E t \in Tasks : Done(t) /\ call[t].authCalls = 1
                                /\ CredentialError(Result(t))

\* C10: an _authenticate() whose login response is non-2xx, or 2xx without
\* the AuthenticationResult field, fails with AuthenticationError carrying
\* the response's status code and body text, after exactly one login POST.
LastLogin(t) ==
    IF ~IsNone(call[t].login2) THEN Val(call[t].login2) ELSE Val(call[t].login1)

LoginRefused(t) ==
    /\ ~IsNone(call[t].login1) \/ ~IsNone(call[t].login2)
    /\ LastLogin(t).resp.kind = "http"
    /\ \/ LastLogin(t).resp.status \notin 200..299
       \/ LastLogin(t).resp.shape = "noresult"

C10_LoginFailureReporting ==
    \A t \in Tasks :
        LoginRefused(t)
            => /\ Done(t) /\ AuthenticationError(Result(t))
               /\ Result(t).status = Some(LastLogin(t).resp.status)
               /\ Result(t).body = Some(LastLogin(t).resp.text)
               /\ call[t].posts = call[t].authCalls


\* C11: every successful _authenticate() is followed by one GET of the
\* profile endpoint with the new token, so a call has sent as many profile
\* GETs as it has completed logins.
LoginOk(l) == ~IsNone(l) /\ Val(l).ok

LoginsCompleted(t) ==
    (IF LoginOk(call[t].login1) THEN 1 ELSE 0)
    + (IF LoginOk(call[t].login2) THEN 1 ELSE 0)

C11_UserIdLookup ==
    \A t \in Tasks : call[t].profileGets = LoginsCompleted(t)


\* C12: a first GET answered with a non-2xx status other than 401 fails the
\* call with ApiRequestError carrying that status and body; the call makes
\* no re-authentication and no second GET, and token and expiry are what
\* they were when the ensure-check was over.
FirstGetRefused(t) ==
    /\ ~IsNone(call[t].resp1) /\ Val(call[t].resp1).kind = "http"
    /\ Val(call[t].resp1).status \notin 200..299
    /\ Val(call[t].resp1).status # 401

C12_NonAuthFailure ==
    \A t \in Tasks :
        FirstGetRefused(t)
            => /\ Done(t) /\ ApiRequestError(Result(t))
               /\ Result(t).status = Some(Val(call[t].resp1).status)
               /\ Result(t).body = Some(Val(call[t].resp1).body)
               /\ call[t].forced = 0
               /\ call[t].authCalls = (IF IsNone(call[t].login1) THEN 0 ELSE 1)
               /\ call[t].gets = 1
               /\ IsNone(call[t].get2) /\ IsNone(call[t].login2)
               /\ access_token = Val(call[t].ensured).token
               /\ token_expires_at = Val(call[t].ensured).expires

\* A call that logged in for the ensure-check and got 500 on its GET.
C12_Witness ==
    \E t \in Tasks :
        /\ FirstGetRefused(t) /\ Done(t) /\ LoginOk(call[t].login1)
        /\ Val(call[t].resp1).status = 500


\* C13: after a successful _authenticate(), token_expires_at is the time at
\* which the login response was processed plus its ExpiresIn seconds, or
\* plus 86400 when it has no ExpiresIn, and access_token is its AccessToken.
LifetimeOf(resp) ==
    IF resp.ExpiresIn.tag = "int" THEN resp.ExpiresIn.n ELSE 86400

C13_ExpiryComputation ==
    \A t \in Tasks : \A l \in {call[t].login1, call[t].login2} :
        (LoginOk(l) /\ Val(l).id = logins)
            => /\ token_expires_at = Some(Val(l).at + LifetimeOf(Val(l).resp))
               /\ access_token = Val(l).resp.AccessToken

\* A login without ExpiresIn, processed after the clock moved on from the
\* ensure-check, is the last one the client has processed.
C13_Witness ==
    \E t \in Tasks :
        /\ LoginOk(call[t].login1) /\ Val(call[t].login1).id = logins
        /\ Val(call[t].login1).resp.ExpiresIn.tag = "absent"
        /\ Val(call[t].login1).at > Checked(t).now
        /\ token_expires_at = Some(Val(call[t].login1).at + 86400)


\* C14: each convenience method passes one query parameter, date, to its own
\* endpoint.  The endpoints of the five methods and the calendar dates of the
\* clock readings, written out:
EndpointOf ==
    [get_overview |-> "/home-service/v1/home",
     get_sleep |-> "/home-service/v1/deep-dive/sleep",
     get_recovery |-> "/home-service/v1/deep-dive/recovery",
     get_strain |-> "/home-service/v1/deep-dive/strain",
     get_healthspan |-> "/healthspan-service/v1/healthspan/bff"]

CalendarDate(reading) ==
    CASE reading = 1000 -> "1970-01-01"
      [] reading = 86399 -> "1970-01-01"
      [] reading = 86400 -> "1970-01-02"
      [] reading = 951782400 -> "2000-02-29"
      [] reading = 1705276800 -> "2024-01-15"
      [] reading = 1709251199 -> "2024-02-29"
      [] reading = 1735603200 -> "2024-12-31"
      [] reading = 1735689600 -> "2025-01-01"

Invoked(t) == invoked[t].method # ""

\* The request of t's call is the one its method names, with `date` as the
\* only query parameter and the value d, on every GET the call has sent.
PassesDate(t, d) ==
    /\ call[t].endpoint = EndpointOf[invoked[t].method]
    /\ DOMAIN call[t].params = {"date"}
    /\ call[t].params.date = d
    /\ \A g \in {call[t].get1, call[t].get2} :
          ~IsNone(g) => /\ Val(g).url = <<BASE_URL, EndpointOf[invoked[t].method]>>
                        /\ DOMAIN Val(g).params = {"date"}
                        /\ Val(g).params.date = d

\* C14 as stated: the value is the caller's string whenever one was given,
\* the empty string included, and the current date only for no argument.
C14_AsStated ==
    \A t \in Tasks :
        Invoked(t)
            => PassesDate(t, IF ~IsNone(invoked[t].date)
                             THEN Val(invoked[t].date)
                             ELSE CalendarDate(Checked(t).now))

\* C14, amended: the value is the caller's string whenever it is not empty,
\* and the current date in YYYY-MM-DD form when no date argument was given
\* or the argument is the empty string.
C14_DateParameter ==
    \A t \in Tasks :
        Invoked(t)
            => PassesDate(t, IF ~IsNone(invoked[t].date) /\ Val(invoked[t].date) # ""
                             THEN Val(invoked[t].date)
                             ELSE CalendarDate(Checked(t).now))

\* get_healthspan("") on a leap day, its GET sent with that day's date, and
\* its length that of YYYY-MM-DD.
C14_Witness ==
    \E t \in Tasks :
        /\ invoked[t] = [method |-> "get_healthspan", date |-> Some("")]
        /\ ~IsNone(call[t].get1)
        /\ Val(call[t].get1).params.date = "2024-02-29"
        /\ Len(Val(call[t].get1).params.date) = 10


\* C15: a data GET that fails in transport fails the call with
\* ApiRequestError, a login POST that fails in transport fails it with
\* AuthenticationError, and neither changes the session.
GetFailedInTransport(t) ==
    \E g \in {call[t].resp1, call[t].resp2} :
        ~IsNone(g) /\ Val(g).kind = "transport"

LoginFailedInTransport(t) ==
    \E l \in {call[t].login1, call[t].login2} :
        ~IsNone(l) /\ Val(l).resp.kind = "transport"

C15_TransportFailuresTyped ==
    \A t \in Tasks :
        /\ GetFailedInTransport(t)
              => (Done(t) /\ ApiRequestError(Result(t)))
        /\ LoginFailedInTransport(t)
              => (Done(t) /\ AuthenticationError(Result(t)))


\* C16: the second GET is issued only after the re-authentication of the 401
\* handler has completed with an accepted login; when that re-authentication
\* fails, the call ends with the exception of _authenticate() (the
\* authentication error for a non-2xx login or a missing
\* AuthenticationResult), with one GET sent, no second GET, and no login
\* after the failed one.
AcceptedLogin(resp) ==
    /\ resp.kind = "http" /\ resp.status \in 200..299
    /\ resp.shape = "result"
    /\ ~IsNone(resp.AccessToken) \/ resp.ExpiresIn.tag # "absent"
    /\ resp.ExpiresIn.tag \in {"absent", "int"}

RefreshFailed(t) ==
    ~IsNone(call[t].login2) /\ ~AcceptedLogin(Val(call[t].login2).resp)

C16_RetryAfterRefresh ==
    \A t \in Tasks :
        /\ ~IsNone(call[t].get2)
              => /\ Got401(t) /\ call[t].forced = 1
                 /\ ~IsNone(call[t].login2)
                 /\ AcceptedLogin(Val(call[t].login2).resp)
                 /\ call[t].gets = 2
        /\ RefreshFailed(t)
              => /\ Done(t) /\ Result(t).kind = "raise"
                 /\ Result(t).site = "_authenticate"
                 /\ IsNone(call[t].get2) /\ IsNone(call[t].resp2)
                 /\ call[t].gets = 1
                 /\ call[t].forced = 1
                 /\ call[t].posts = (IF IsNone(call[t].login1) THEN 1 ELSE 2)
                 /\ call[t].authCalls = call[t].posts
        /\ (RefreshFailed(t) /\ LoginRefused(t))
              => AuthenticationError(Result(t))

\* A call whose 401 refresh was answered 400: ended, one GET sent.
C16_Witness ==
    \E t \in Tasks :
        /\ RefreshFailed(t) /\ Done(t)
        /\ Val(call[t].login2).resp.status = 400
        /\ AuthenticationError(Result(t))
        /\ call[t].gets = 1


\* C17: an _authenticate() that ends in failure leaves access_token and
\* token_expires_at as they were before it.
C17_NoPartialUpdate ==
    \A t \in Tasks : \A l \in {call[t].login1, call[t].login2} :
        (~IsNone(l) /\ ~Val(l).ok) => ~Val(l).changed


\* C18: two calls on the shared client whose ensure-checks both read a
\* session that is empty or within 300 s of expiry each issue a login POST,
\* the second going out while the first is still in flight, and once both
\* logins have succeeded the session holds the token and the expiry of the
\* one whose response was processed last.
EmptyAtCheck(t) == ~IsNone(call[t].check) /\ IsNone(Checked(t).token)

\* Login lb went out before login la was processed, and was processed after it.
Overlapped(la, lb) == Val(la).id < Val(lb).id /\ Val(lb).sent < Val(la).id

RefreshedTogether(a, b) ==
    /\ a # b
    /\ EmptyAtCheck(a) \/ NearExpiryAtCheck(a)
    /\ EmptyAtCheck(b) \/ NearExpiryAtCheck(b)
    /\ LoginOk(call[a].login1) /\ LoginOk(call[b].login1)
    /\ Overlapped(call[a].login1, call[b].login1)

C18_UnsynchronizedRefresh ==
    \A a \in Tasks : \A b \in Tasks :
        (RefreshedTogether(a, b) /\ Val(call[b].login1).id = logins)
            => /\ access_token = Val(call[b].login1).resp.AccessToken
               /\ token_expires_at
                     = Some(Val(call[b].login1).at
                            + LifetimeOf(Val(call[b].login1).resp))
               /\ Val(call[b].login1).changed
               /\ access_token # Val(call[a].login1).resp.AccessToken
               /\ tokSrc = Val(call[b].login1).id
               /\ expSrc = Val(call[b].login1).id
               /\ call[a].posts >= 1 /\ call[b].posts >= 1

\* Both tasks found the session empty, both POSTs were in flight together,
\* both logins succeeded, and the session is the later one's.
C18_Witness ==
    \E a \in Tasks : \E b \in Tasks :
        /\ RefreshedTogether(a, b) /\ Val(call[b].login1).id = logins
        /\ EmptyAtCheck(a) /\ EmptyAtCheck(b)
        /\ Val(call[a].login1).sent = 0 /\ Val(call[b].login1).sent = 0
        /\ access_token = Val(call[b].login1).resp.AccessToken


\* C19: every data call that has started ends, with a returned document or a
\* raised exception, provided every HTTP exchange it awaits completes.
InFlight(t) == pc[t] \in {"ensure_post", "get1", "retry_post", "get2"}

Completed(t) ==
    /\ pc[t] = "done" /\ ~IsNone(call[t].outcome)
    /\ Result(t).kind \in {"return", "raise"}

C19_Termination ==
    \A t \in Tasks : InFlight(t) ~> Completed(t)

\* Both tasks' calls are over, one of them after 401 on its retried GET.
C19_Witness ==
    /\ \A t \in Tasks : Completed(t)
    /\ \E t \in Tasks : Retried(t) /\ RetryStatus(t) = 401 /\ call[t].gets = 2


\* C20: whatever the client call ended with, the handler of its metric
\* returns a result with one text content block and raises nothing; when the
\* client call raised, the result has isError true and its text begins with
\* "Error fetching Whoop <metric> data:", and the server tool of the metric
\* returns that text as a string.
MetricOf ==
    [get_overview |-> "overview", get_sleep |-> "sleep",
     get_recovery |-> "recovery", get_strain |-> "strain",
     get_healthspan |-> "healthspan"]

\* What the handler and the server tool over t's finished call end with.
Handled(t) ==
    CASE invoked[t].method = "get_overview" -> handle_overview(Result(t))
      [] invoked[t].method = "get_sleep" -> handle_sleep(Result(t))
      [] invoked[t].method = "get_recovery" -> handle_recovery(Result(t))
      [] invoked[t].method = "get_strain" -> handle_strain(Result(t))
      [] invoked[t].method = "get_healthspan" -> handle_healthspan(Result(t))

Served(t) ==
    CASE invoked[t].method = "get_overview" -> whoop_get_overview(Result(t))
      [] invoked[t].method = "get_sleep" -> whoop_get_sleep(Result(t))
      [] invoked[t].method = "get_recovery" -> whoop_get_recovery(Result(t))
      [] invoked[t].method = "get_strain" -> whoop_get_strain(Result(t))
      [] invoked[t].method = "get_healthspan" -> whoop_get_healthspan(Result(t))

ErrorPrefix(t) == "Error fetching Whoop " \o MetricOf[invoked[t].method] \o " data:"

BeginsWith(text, prefix) ==
    Len(text) >= Len(prefix) /\ SubSeq(text, 1, Len(prefix)) = prefix

C20_ToolLayerNeverRaises ==
    \A t \in Tasks :
        (Done(t) /\ Invoked(t))
            => /\ Handled(t).kind = "return"
               /\ Len(Val(Handled(t).value).content) = 1
               /\ Val(Handled(t).value).content[1].type = "text"
               /\ Served(t).kind = "return"
               /\ Served(t).value = Some(Val(Handled(t).value).content[1].text)
               /\ Result(t).kind = "raise"
                    => /\ Val(Handled(t).value).isError = Some(TRUE)
                       /\ BeginsWith(Val(Handled(t).value).content[1].text,
                                     ErrorPrefix(t))
                       /\ BeginsWith(Val(Served(t).value), ErrorPrefix(t))

\* get_strain ended with the uncaught HTTPStatusError of a retried GET, and
\* the strain tool returned the error text.
C20_Witness ==
    \E t \in Tasks :
        /\ Done(t) /\ invoked[t].method = "get_strain"
        /\ Result(t).kind = "raise" /\ Result(t).exc = "httpx.HTTPStatusError"
        /\ Served(t).kind = "return"
        /\ BeginsWith(Val(Served(t).value), "Error fetching Whoop strain data:")

====
